---- MODULE Spec2Model ----
(***************************************************************************)
(* Model of src/dronecontroller.py: the controller thread's decision loop, *)
(* the telemetry callback of the drone interface, and the tracking-feed    *)
(* listener thread.                                                        *)
(*                                                                         *)
(* Time is counted in ticks of 50 ms, so that every timing constant of the *)
(* source is an integer: LOOP_TIMEOUT 0.05 s = 1, the 0.3 s dispatch       *)
(* period = 6, VICON_TIMEOUT 0.5 s = 10, DRONE_TIMEOUT and LIFT_DELAY      *)
(* 3 s = 60.  Floating-point values (PID outputs) are fixed-point numbers  *)
(* with FP units per 1.0.                                                  *)
(***************************************************************************)
EXTENDS Integers, Sequences, FiniteSets, TLC

(* ------------------------------ constants ------------------------------ *)

MAX_SPEED == 100

S_DISCONNECTED == 0
S_CONNECTING == 1
S_CONNECTED == 2

CB_MSG == 0
CB_BATTERY == 1
CB_DATA_UPDATE == 2
CB_SPEED == 3
CB_STATE == 4

VICON_TIMEOUT == 10
DRONE_TIMEOUT == 60
LOOP_TIMEOUT == 1
LIFT_DELAY == 60
JOY_PERIOD == 6

GROUNDED_SPEED == 10

\* tan(ROTATION_HALT) = tan(0.4) = 0.422793..., as a fraction
ROTATION_HALT_TAN_NUM == 422793
ROTATION_HALT_TAN_DEN == 1000000

\* fixed-point units per 1.0 of a Python float
FP == 10

(* -------------------------------- bounds ------------------------------- *)

\* the clock's reading when the controller is constructed: time.time() counts
\* from 1970, so the reading is far beyond LIFT_DELAY
StartTime == 100
\* how long after a timeout's boundary the late instants lie
Late == 1
\* the cap on the wake semaphore's counter
MaxSem == 2
\* the number of distinct poses the tracking feed reports
NPoses == 1

(* ------------------------------- helpers ------------------------------- *)

Min(a, b) == IF a < b THEN a ELSE b
Max(a, b) == IF a > b THEN a ELSE b
Abs(a) == IF a < 0 THEN -a ELSE a

\* the instants at which the clock is read: construction, each timeout's
\* boundary and an instant past it
Instants ==
    {StartTime + d : d \in {0, VICON_TIMEOUT, VICON_TIMEOUT + Late,
                            DRONE_TIMEOUT, DRONE_TIMEOUT + Late}}

\* the marker of an attribute that was never assigned
Unset == "unset"

\* a command handed to the drone interface
Cmd(c) == [cmd |-> c, args |-> <<>>]
Joy(a, b, c, d) == [cmd |-> "send_joy", args |-> <<a, b, c, d>>]

(* ------------------------------ pose math ------------------------------ *)

negate_quaternion(q) == <<-q[1], -q[2], -q[3], q[4]>>

add_quaternion(q1, q2) ==
    << q1[4] * q2[1] + q1[1] * q2[4] + q1[2] * q2[3] - q1[3] * q2[2],
       q1[4] * q2[2] - q1[1] * q2[3] + q1[2] * q2[4] + q1[3] * q2[1],
       q1[4] * q2[3] + q1[1] * q2[2] - q1[2] * q2[1] + q1[3] * q2[4],
       q1[4] * q2[4] - q1[1] * q2[1] - q1[2] * q2[2] - q1[3] * q2[3] >>

\* the two arguments of atan2 in quaternion_to_yaw
YawSin(q) == 2 * q[2] * q[4] - 2 * q[1] * q[3]
YawCos(q) == 1 - 2 * q[2] * q[2] - 2 * q[3] * q[3]

\* math.fabs(atan2(s, c)) < ROTATION_HALT, decided without computing the angle
YawBelowHalt(s, c) ==
    \/ s = 0 /\ c >= 0
    \/ c > 0 /\ Abs(s) * ROTATION_HALT_TAN_DEN < ROTATION_HALT_TAN_NUM * c

\* math.fabs(angluar_difference(quad1, quad2)) < ROTATION_HALT
AngleBelowHalt(quad1, quad2) ==
    LET quad_diff == add_quaternion(quad1, negate_quaternion(quad2))
    IN  YawBelowHalt(YawSin(quad_diff), YawCos(quad_diff))

(* --------------------------- command arithmetic ------------------------ *)

RECURSIVE SqrtSearch(_, _, _)
SqrtSearch(n, lo, hi) ==
    IF lo >= hi THEN lo
    ELSE LET mid == (lo + hi + 1) \div 2
         IN  IF mid * mid <= n THEN SqrtSearch(n, mid, hi)
                               ELSE SqrtSearch(n, lo, mid - 1)

\* the lambda scale: copysign(sqrt(fabs(x)), x), on fixed-point numbers; the
\* search for the root stops at 46340, the root of the largest 32-bit integer
scale(x) ==
    LET r == SqrtSearch(Abs(x) * FP, 0, Min(Abs(x) * FP, 46340))
    IN  IF x < 0 THEN -r ELSE r

\* the lambda clip: max(x_min, min(x_max, x))
clipLowOnly(x, x_min, x_max) == Max(x_min, x)
clip(x, x_min, x_max) == Max(x_min, Min(x_max, x))

\* int(x) of a float: truncation towards zero
int(x) == IF x >= 0 THEN x \div FP ELSE -((-x) \div FP)

\* the four arguments of send_joy, from the four values before clipping
JoyArgs(hor_lr, hor_fb, rotation, vertical) ==
    Joy(int(clip(hor_lr, -MAX_SPEED * FP, MAX_SPEED * FP)),
        int(clip(hor_fb, -MAX_SPEED * FP, MAX_SPEED * FP)),
        int(clip(rotation, -MAX_SPEED * FP, MAX_SPEED * FP)),
        int(clip(vertical, -MAX_SPEED * FP, MAX_SPEED * FP)))

\* the values a PID instance may return (fixed-point): the PID is an external
\* collaborator whose output depends on its history and on the wall clock
PidOutputs == {-(400 * MAX_SPEED * FP + 5), 7, 2 * MAX_SPEED * FP + 5}

(* --------------------------- tracking requests ------------------------- *)

\* A request body on the tracking feed: whether json.loads accepts it, the
\* top-level keys it has, whether "translation" and "rotation" are objects
\* holding their coordinates, the pose it reports and its "reset" value.
TrackingKeys == {"translation", "rotation", "reset"}

WellFormed(p, r) ==
    [json |-> TRUE, keys |-> TrackingKeys, objs |-> TRUE, pose |-> p, reset |-> r]
NotJson ==
    [json |-> FALSE, keys |-> {}, objs |-> FALSE, pose |-> 0, reset |-> 0]
MissingField ==
    [json |-> TRUE, keys |-> {"rotation", "reset"}, objs |-> TRUE, pose |-> 1, reset |-> 1]
WrongType ==
    [json |-> TRUE, keys |-> TrackingKeys, objs |-> FALSE, pose |-> 1, reset |-> 1]
NoRequest ==
    [json |-> FALSE, keys |-> {}, objs |-> FALSE, pose |-> -1, reset |-> 0]

ResetValues == {0, 1, 2}

TrackingRequests ==
    {WellFormed(p, r) : p \in 1..NPoses, r \in ResetValues}
        \cup {NotJson, MissingField, WrongType}

\* the pose a well-formed request reports, rotation in (x, y, z, w) order
TranslationOf(p) == <<p, 0, p>>
RotationOf(p) == IF p % 2 = 1 THEN <<0, 0, 0, 1>> ELSE <<0, 1, 0, 1>>

\* reset = control_message_json['reset'] == 1
ResetFlagTruthy(m) == m.reset # 0
ResetFlag(m) == m.reset = 1

\* json.loads raises on the body (outside the try block)
LoadsRaises(m) == ~m.json
\* the try block raises before or instead of calling process
DecodeRaises(m) == ~(TrackingKeys \subseteq m.keys) \/ ~m.objs

(* --------------------------- telemetry payloads ------------------------ *)

SpeedReports == {GROUNDED_SPEED - 1, GROUNDED_SPEED}
StateReports == {"y", "n"}
TextReports == {""}

\* an event as the callback receives it: its type and, for a connection
\* state event, its value
Event(t, data) == [t |-> t, data |-> IF t = CB_STATE THEN data ELSE ""]
NoEvent == [t |-> -1, data |-> ""]

\* the hardware layer's threads that invoke the telemetry callback
NCallbackThreads == 2
CallbackThreads == 1..NCallbackThreads

DataOf(t) ==
    CASE t = CB_SPEED -> SpeedReports
      [] t = CB_STATE -> StateReports
      [] OTHER -> TextReports

(* -------------------------------- state -------------------------------- *)

VARIABLES
    now,                \* the wall clock, time.time()
    stop_event,         \* the controller thread's stop signal
    ctl_pc,             \* the controller thread's position in run
    current_time,       \* run's local: when the wait began
    dec_now,            \* make_decision's local now
    new_changes,        \* the wake semaphore's counter
    state, speed, message, battery, config,
    drone_translation, drone_rotation,
    target_translation, target_rotation,
    last_drone_update, last_vicon_update,
    lifted_time, failed, joy_update,
    drone_tracking,     \* Unset: the attribute was never assigned
    vicon_pc,           \* the tracking listener's position in run
    vicon_msg,          \* the request the tracking listener is serving
    out,                \* the commands the last step handed to the drone
    last_takeoff,       \* when takeoff() was last issued (0: never)
    event,              \* the telemetry event the callback last handled
    unity_pc,           \* the target listener's position in run
    vicon_stop,         \* the tracking listener thread's own stop signal
    mutex,              \* the threads holding the module's mutex
    cb_pc,              \* each telemetry thread's position in receive_drone_data
    cb_ev,              \* the event each telemetry thread is handling
    cb_t                \* the time.time() each telemetry thread has read

telemetry == <<state, speed, message, battery, config>>
poses == <<drone_translation, drone_rotation, target_translation, target_rotation>>
stamps == <<last_drone_update, last_vicon_update, lifted_time, joy_update>>
fields == <<telemetry, poses, stamps, failed, drone_tracking>>
ctl == <<ctl_pc, current_time, dec_now>>
vicon == <<vicon_pc, vicon_msg>>
callbacks == <<cb_pc, cb_ev, cb_t>>
ext == <<event, unity_pc, vicon_stop, mutex, callbacks>>
vars == <<now, stop_event, ctl, new_changes, fields, vicon, out, last_takeoff, ext>>

\* ControllerThread.__init__ and the threads before start()
Constructed ==
    /\ now = StartTime
    /\ stop_event = FALSE
    /\ ctl_pc = "init"
    /\ current_time = 0
    /\ dec_now = 0
    /\ new_changes = 0
    /\ state = S_DISCONNECTED
    /\ speed = 0
    /\ message = ""
    /\ battery = ""
    /\ config = ""
    /\ drone_translation = <<0, 0, 0>>
    /\ drone_rotation = <<0, 1, 0, 0>>
    /\ target_translation = <<0, 0, 0>>
    /\ target_rotation = <<0, 1, 0, 0>>
    /\ last_drone_update = StartTime
    /\ last_vicon_update = StartTime
    /\ lifted_time = 0
    /\ joy_update = StartTime
    /\ vicon_pc = "new"
    /\ vicon_msg = NoRequest
    /\ out = <<>>
    /\ last_takeoff = 0
    /\ event = NoEvent
    /\ unity_pc = "new"
    /\ vicon_stop = FALSE
    /\ mutex = {}
    /\ cb_pc = [i \in CallbackThreads |-> "idle"]
    /\ cb_ev = [i \in CallbackThreads |-> NoEvent]
    /\ cb_t = [i \in CallbackThreads |-> 0]

Init ==
    /\ Constructed
    /\ failed = FALSE
    /\ drone_tracking = Unset

(* -------------------------------- clock -------------------------------- *)

Tick ==
    /\ \E t \in Instants : t > now /\ now' = t
    /\ out' = <<>>
    /\ UNCHANGED <<stop_event, ctl, new_changes, fields, vicon, last_takeoff, ext>>

\* the instants around the dispatch period: the period's boundary and an
\* instant past it, once and again
InstantsJoy ==
    {StartTime + d : d \in {0, JOY_PERIOD, JOY_PERIOD + Late,
                            2 * JOY_PERIOD + Late, 2 * JOY_PERIOD + 2 * Late}}

TickJoy ==
    /\ \E t \in InstantsJoy : t > now /\ now' = t
    /\ out' = <<>>
    /\ UNCHANGED <<stop_event, ctl, new_changes, fields, vicon, last_takeoff, ext>>

(* ------------------------- StoppableThread.stop ------------------------ *)

Stop ==
    /\ ctl_pc # "init"
    /\ ~stop_event
    /\ stop_event' = TRUE
    /\ out' = <<>>
    /\ UNCHANGED <<now, ctl, new_changes, fields, vicon, last_takeoff, ext>>

\* stop() called on the tracking listener thread, once it runs
StopVicon ==
    /\ vicon_pc \in {"recv", "reply"}
    /\ ~vicon_stop
    /\ vicon_stop' = TRUE
    /\ out' = <<>>
    /\ UNCHANGED <<now, stop_event, ctl, new_changes, fields, vicon, last_takeoff,
                   event, unity_pc, mutex, callbacks>>

(* --------------------------- telemetry callback ------------------------ *)

\* Semaphore.release, the counter capped at MaxSem by the callers' guards
Release == new_changes' = new_changes + 1

\* a callback that takes every value but 'y' for a connection in progress
StateOfConnecting(data) == IF data = "y" THEN S_CONNECTED ELSE S_CONNECTING

\* the field receive_drone_data assigns for event type t
StateOf(data) == IF data = "y" THEN S_CONNECTED ELSE S_DISCONNECTED

receive_drone_data(t, data) ==
    /\ state' = IF t = CB_STATE THEN StateOf(data) ELSE state
    /\ speed' = IF t = CB_SPEED THEN data ELSE speed
    /\ message' = IF t = CB_MSG THEN data ELSE message
    /\ battery' = IF t = CB_BATTERY THEN data ELSE battery
    /\ config' = IF t = CB_DATA_UPDATE THEN data ELSE config
    /\ last_drone_update' = now
    /\ Release
    /\ UNCHANGED <<poses, last_vicon_update, lifted_time, joy_update, failed,
                   drone_tracking>>

\* the drone interface delivers an event between connect() and die()
Telemetry ==
    /\ ctl_pc \notin {"init", "done"}
    /\ new_changes < MaxSem
    /\ \E t \in {CB_MSG, CB_BATTERY, CB_DATA_UPDATE, CB_SPEED, CB_STATE} :
           \E data \in DataOf(t) : receive_drone_data(t, data)
    /\ out' = <<>>
    /\ UNCHANGED <<now, stop_event, ctl, vicon, last_takeoff, ext>>

\* the same step, observed: the event handled is recorded
TelemetryObserved ==
    /\ ctl_pc \notin {"init", "done"}
    /\ new_changes < MaxSem
    /\ \E t \in {CB_MSG, CB_BATTERY, CB_DATA_UPDATE, CB_SPEED, CB_STATE} :
           \E data \in DataOf(t) :
               /\ receive_drone_data(t, data)
               /\ event' = Event(t, data)
    /\ out' = <<>>
    /\ UNCHANGED <<now, stop_event, ctl, vicon, last_takeoff, unity_pc, vicon_stop,
                   mutex, callbacks>>

(* ------------------ telemetry callback, statement by statement --------- *)

\* the branch on t and mutex.acquire()
CallbackLock(i) ==
    /\ ctl_pc \notin {"init", "done"}
    /\ cb_pc[i] = "idle"
    /\ mutex = {}
    /\ mutex' = {i}
    /\ \E t \in {CB_MSG, CB_BATTERY, CB_DATA_UPDATE, CB_SPEED, CB_STATE} :
           \E data \in DataOf(t) :
               cb_ev' = [cb_ev EXCEPT ![i] = [t |-> t, data |-> data]]
    /\ cb_pc' = [cb_pc EXCEPT ![i] = "locked"]
    /\ out' = <<>>
    /\ UNCHANGED <<now, stop_event, ctl, new_changes, fields, vicon, last_takeoff,
                   event, unity_pc, vicon_stop, cb_t>>

\* the assignment of the event's field and mutex.release()
CallbackAssign(i) ==
    /\ cb_pc[i] = "locked"
    /\ mutex = {i}
    /\ LET t == cb_ev[i].t
           data == cb_ev[i].data
       IN  /\ state' = IF t = CB_STATE THEN StateOf(data) ELSE state
           /\ speed' = IF t = CB_SPEED THEN data ELSE speed
           /\ message' = IF t = CB_MSG THEN data ELSE message
           /\ battery' = IF t = CB_BATTERY THEN data ELSE battery
           /\ config' = IF t = CB_DATA_UPDATE THEN data ELSE config
    /\ mutex' = {}
    /\ cb_pc' = [cb_pc EXCEPT ![i] = "unlocked"]
    /\ cb_ev' = [cb_ev EXCEPT ![i] = NoEvent]
    /\ out' = <<>>
    /\ UNCHANGED <<now, stop_event, ctl, new_changes, poses, stamps, failed,
                   drone_tracking, vicon, last_takeoff, event, unity_pc,
                   vicon_stop, cb_t>>

\* the evaluation of time.time() on the right of the last assignment
CallbackClock(i) ==
    /\ cb_pc[i] = "unlocked"
    /\ cb_t' = [cb_t EXCEPT ![i] = now]
    /\ cb_pc' = [cb_pc EXCEPT ![i] = "stamped"]
    /\ out' = <<>>
    /\ UNCHANGED <<now, stop_event, ctl, new_changes, fields, vicon, last_takeoff,
                   event, unity_pc, vicon_stop, mutex, cb_ev>>

\* the store to last_drone_update and new_changes.release()
CallbackStore(i) ==
    /\ cb_pc[i] = "stamped"
    /\ new_changes < MaxSem
    /\ last_drone_update' = cb_t[i]
    /\ Release
    /\ cb_t' = [cb_t EXCEPT ![i] = 0]
    /\ cb_pc' = [cb_pc EXCEPT ![i] = "idle"]
    /\ out' = <<>>
    /\ UNCHANGED <<now, stop_event, ctl, telemetry, poses, last_vicon_update,
                   lifted_time, joy_update, failed, drone_tracking, vicon,
                   last_takeoff, event, unity_pc, vicon_stop, mutex, cb_ev>>

(* --------------------------- tracking listener ------------------------- *)

receive_vicon_data(translation, rotation, reset) ==
    /\ drone_translation' = translation
    /\ drone_rotation' = rotation
    /\ failed' = IF reset THEN FALSE ELSE failed
    /\ last_vicon_update' = now
    /\ Release
    /\ UNCHANGED <<telemetry, target_translation, target_rotation,
                   last_drone_update, lifted_time, joy_update, drone_tracking>>

\* ControllerThread.halt, the listeners' cleanup callback
halt == <<Cmd("still")>>

\* socket.recv, json.loads and the try block of ViconServerThread.run
ViconRecv ==
    /\ vicon_pc = "recv"
    /\ new_changes < MaxSem
    /\ \E m \in TrackingRequests :
        /\ vicon_msg' = m
        /\ IF LoadsRaises(m)
             THEN /\ vicon_pc' = "crashed"
                  /\ out' = <<>>
                  /\ UNCHANGED <<new_changes, fields>>
             ELSE /\ vicon_pc' = "reply"
                  /\ IF DecodeRaises(m)
                       THEN /\ out' = halt
                            /\ UNCHANGED <<new_changes, fields>>
                       ELSE /\ receive_vicon_data(TranslationOf(m.pose),
                                                  RotationOf(m.pose), ResetFlag(m))
                            /\ out' = <<>>
    /\ UNCHANGED <<now, stop_event, ctl, last_takeoff, ext>>

\* feedback() (status_report takes and returns the mutex), socket.send and
\* the test of the listener's stop signal at the top of the loop
ViconReply ==
    /\ vicon_pc = "reply"
    /\ mutex = {}
    /\ vicon_pc' = IF vicon_stop THEN "closed" ELSE "recv"
    /\ vicon_msg' = NoRequest
    /\ out' = <<>>
    /\ UNCHANGED <<now, stop_event, ctl, new_changes, fields, last_takeoff, ext>>

(* ---------------------------- target listener ------------------------- *)

receive_unity_data(translation, rotation) ==
    /\ target_translation' = translation
    /\ target_rotation' = rotation
    /\ Release
    /\ UNCHANGED <<telemetry, drone_translation, drone_rotation, stamps, failed,
                   drone_tracking>>

\* the rotation UnityServerThread.run builds, in (w, x, y, z) order
TargetRotationOf(p) ==
    <<RotationOf(p)[4], RotationOf(p)[1], RotationOf(p)[2], RotationOf(p)[3]>>

\* socket.recv, json.loads and the try block of UnityServerThread.run. The
\* step needs the thread started (unity_pc = "recv"); run starts the
\* tracking listener only, so the step is no part of Next.
UnityRecv ==
    /\ unity_pc = "recv"
    /\ new_changes < MaxSem
    /\ \E m \in TrackingRequests :
        IF LoadsRaises(m)
          THEN /\ unity_pc' = "crashed"
               /\ out' = <<>>
               /\ UNCHANGED <<new_changes, fields>>
          ELSE /\ unity_pc' = "reply"
               /\ IF ~({"translation", "rotation"} \subseteq m.keys) \/ ~m.objs
                    THEN /\ out' = halt
                         /\ UNCHANGED <<new_changes, fields>>
                    ELSE /\ receive_unity_data(TranslationOf(m.pose),
                                               TargetRotationOf(m.pose))
                         /\ out' = <<>>
    /\ UNCHANGED <<now, stop_event, ctl, vicon, last_takeoff, event, vicon_stop,
                   mutex, callbacks>>

(* --------------------------- controller thread ------------------------- *)

\* run, up to the loop: start the tracking listener, connect
ControllerStart ==
    /\ ctl_pc = "init"
    /\ ctl_pc' = "loop"
    /\ vicon_pc' = "recv"
    /\ out' = <<Cmd("connect")>>
    /\ UNCHANGED <<now, stop_event, current_time, dec_now, new_changes, fields,
                   vicon_msg, last_takeoff, ext>>

\* the test of stop_event at the top of the loop
LoopTop ==
    /\ ctl_pc = "loop"
    /\ IF stop_event
         THEN /\ ctl_pc' = "done"
              /\ out' = <<Cmd("emergency"), Cmd("die")>>
              /\ UNCHANGED current_time
         ELSE /\ ctl_pc' = "wait"
              /\ current_time' = now
              /\ out' = <<>>
    /\ UNCHANGED <<now, stop_event, dec_now, new_changes, fields, vicon, last_takeoff, ext>>

\* new_changes.acquire(blocking=False) succeeds
WaitAcquire ==
    /\ ctl_pc = "wait"
    /\ now - current_time < LOOP_TIMEOUT
    /\ new_changes > 0
    /\ new_changes' = new_changes - 1
    /\ ctl_pc' = "decide"
    /\ current_time' = 0
    /\ out' = <<>>
    /\ UNCHANGED <<now, stop_event, dec_now, fields, vicon, last_takeoff, ext>>

\* the polling loop ends: LOOP_TIMEOUT has passed
WaitTimeout ==
    /\ ctl_pc = "wait"
    /\ now - current_time >= LOOP_TIMEOUT
    /\ ctl_pc' = "decide"
    /\ current_time' = 0
    /\ out' = <<>>
    /\ UNCHANGED <<now, stop_event, dec_now, new_changes, fields, vicon, last_takeoff, ext>>

\* drone.connect() when the state is S_DISCONNECTED
Connect == IF state = S_DISCONNECTED THEN <<Cmd("connect")>> ELSE <<>>

DroneStaleAtBoundary(n) == n - last_drone_update >= DRONE_TIMEOUT
DroneStale(n) == n - last_drone_update > DRONE_TIMEOUT
ViconStaleAtBoundary(n) == n - last_vicon_update >= VICON_TIMEOUT
ViconStale(n) == n - last_vicon_update > VICON_TIMEOUT

\* make_decision, up to and including the test of the state
MakeDecisionTest ==
    /\ ctl_pc = "decide"
    /\ IF failed
         THEN /\ ctl_pc' = "loop"
              /\ out' = <<>>
              /\ UNCHANGED dec_now
         ELSE IF DroneStale(now) \/ ViconStale(now)
         THEN /\ ctl_pc' = "loop"
              /\ out' = Connect \o halt
              /\ UNCHANGED dec_now
         ELSE IF state = S_CONNECTED
         THEN /\ ctl_pc' = "act"
              /\ dec_now' = now
              /\ out' = <<>>
         ELSE /\ ctl_pc' = "loop"
              /\ out' = Connect
              /\ UNCHANGED dec_now
    /\ UNCHANGED <<now, stop_event, current_time, new_changes, fields, vicon,
                   last_takeoff, ext>>

LiftAllowed(n) == n - lifted_time > LIFT_DELAY
\* a throttle that lets a command through when the period has just elapsed
JoyDueAtBoundary == now - joy_update >= JOY_PERIOD
JoyDue == now - joy_update > JOY_PERIOD

\* a control computation that consults all four PID instances whatever the
\* yaw error
ComputedCommandsUngated ==
    {JoyArgs(scale(lr), scale(fb), rot, vert) : lr, fb, rot, vert \in PidOutputs}

\* the commands the control computation may produce: pid_rotation is always
\* consulted, the other three PID instances only below ROTATION_HALT
ComputedCommands ==
    IF AngleBelowHalt(drone_rotation, target_rotation)
      THEN {JoyArgs(scale(lr), scale(fb), rot, vert) : lr, fb, rot, vert \in PidOutputs}
      ELSE {JoyArgs(0, 0, rot, 0) : rot \in PidOutputs}

\* make_decision, the branch taken when the state is S_CONNECTED
make_decision_act ==
    /\ ctl_pc = "act"
    /\ IF speed < GROUNDED_SPEED
         THEN /\ ctl_pc' = "loop"
              /\ out' = IF LiftAllowed(dec_now) THEN <<Cmd("takeoff")>> ELSE <<>>
              /\ UNCHANGED joy_update
         ELSE IF drone_tracking = Unset
         THEN /\ ctl_pc' = "faulted"
              /\ out' = <<>>
              /\ UNCHANGED joy_update
         ELSE IF drone_tracking = "True"
         THEN /\ ctl_pc' = "loop"
              /\ IF JoyDue
                   THEN /\ \E c \in ComputedCommands : out' = <<c>>
                        /\ joy_update' = now
                   ELSE out' = <<>> /\ UNCHANGED joy_update
         ELSE /\ ctl_pc' = "loop"
              /\ out' = <<Joy(0, 0, 0, -10)>>
              /\ UNCHANGED joy_update
    /\ dec_now' = 0
    /\ UNCHANGED <<now, stop_event, current_time, new_changes, telemetry, poses,
                   last_drone_update, last_vicon_update, lifted_time, failed,
                   drone_tracking, vicon>>

MakeDecisionAct ==
    /\ make_decision_act
    /\ UNCHANGED <<last_takeoff, ext>>

\* the same step, observed: when takeoff() was last issued is recorded
MakeDecisionActObserved ==
    /\ make_decision_act
    /\ last_takeoff' = IF out' = <<Cmd("takeoff")>> THEN now ELSE last_takeoff
    /\ UNCHANGED ext

(* ----------------------------- specification --------------------------- *)

Next ==
    \/ Tick
    \/ Stop
    \/ Telemetry
    \/ ViconRecv
    \/ ViconReply
    \/ ControllerStart
    \/ LoopTop
    \/ WaitAcquire
    \/ WaitTimeout
    \/ MakeDecisionTest
    \/ MakeDecisionAct

Spec == Init /\ [][Next]_vars

\* the same program with its takeoff() commands timed
NextObserved ==
    \/ Tick
    \/ Stop
    \/ Telemetry
    \/ ViconRecv
    \/ ViconReply
    \/ ControllerStart
    \/ LoopTop
    \/ WaitAcquire
    \/ WaitTimeout
    \/ MakeDecisionTest
    \/ MakeDecisionActObserved

SpecObserved == Init /\ [][NextObserved]_vars

\* the same program with its telemetry events recorded
NextEvents ==
    \/ Tick
    \/ Stop
    \/ TelemetryObserved
    \/ ViconRecv
    \/ ViconReply
    \/ ControllerStart
    \/ LoopTop
    \/ WaitAcquire
    \/ WaitTimeout
    \/ MakeDecisionTest
    \/ MakeDecisionAct

SpecEvents == Init /\ [][NextEvents]_vars

\* the program with the tracking listener stopped from outside
NextStop ==
    \/ Tick
    \/ Stop
    \/ StopVicon
    \/ Telemetry
    \/ ViconRecv
    \/ ViconReply
    \/ ControllerStart
    \/ LoopTop
    \/ WaitAcquire
    \/ WaitTimeout
    \/ MakeDecisionTest
    \/ MakeDecisionAct

SpecStop == Init /\ [][NextStop]_vars

\* The controller with drone_tracking assigned True from outside before
\* start(), its clock read around the dispatch period
InitJoy ==
    /\ Constructed
    /\ failed = FALSE
    /\ drone_tracking = "True"

NextJoy ==
    \/ TickJoy
    \/ Stop
    \/ Telemetry
    \/ ViconRecv
    \/ ViconReply
    \/ ControllerStart
    \/ LoopTop
    \/ WaitAcquire
    \/ WaitTimeout
    \/ MakeDecisionTest
    \/ MakeDecisionAct

SpecJoy == InitJoy /\ [][NextJoy]_vars

\* the threads around the decision loop, with the telemetry callback run
\* statement by statement on the hardware layer's threads; the decision loop
\* itself waits at its top
NextThreads ==
    \/ Tick
    \/ ControllerStart
    \/ \E i \in CallbackThreads : CallbackLock(i)
    \/ \E i \in CallbackThreads : CallbackAssign(i)
    \/ \E i \in CallbackThreads : CallbackClock(i)
    \/ \E i \in CallbackThreads : CallbackStore(i)
    \/ ViconRecv
    \/ ViconReply

SpecThreads == Init /\ [][NextThreads]_vars

\* The controller with the two attributes that no code of the module sets
\* assigned from outside before start(): failed (only ever cleared) and
\* drone_tracking (only ever read).
InitUnit ==
    /\ Constructed
    /\ failed \in BOOLEAN
    /\ drone_tracking \in {"True", "False"}

SpecUnit == InitUnit /\ [][Next]_vars

(* -------------------------------- claims -------------------------------- *)

\* command c is among the commands the last step handed to the drone
Issued(c) == \E i \in DOMAIN out : out[i].cmd = c
IssuedNext(c) == \E i \in DOMAIN out' : out'[i].cmd = c

\* this step is the first part of a decision step (make_decision is entered)
DecisionStep == ctl_pc = "decide" /\ ctl_pc' # "decide"

\* this step is the tracking listener receiving and decoding a request
TrackingStep == vicon_pc = "recv" /\ vicon_pc' # "recv"

\* C1: while the failure flag is set a decision step issues no command and
\* changes no controller field (it returns to the top of the loop), and the
\* flag goes from set to clear only in a tracking request that decodes and
\* whose reset field equals 1.
C1_FailureSuppresses ==
    [][ /\ (DecisionStep /\ failed) =>
              /\ ctl_pc' = "loop"
              /\ out' = <<>>
              /\ UNCHANGED <<fields, new_changes, vicon, stop_event>>
        /\ (failed /\ ~failed') =>
              /\ TrackingStep
              /\ vicon_msg'.json
              /\ TrackingKeys \subseteq vicon_msg'.keys
              /\ vicon_msg'.objs
              /\ vicon_msg'.reset = 1 ]_vars

\* C1 witness: a telemetry event at the present instant raised the semaphore,
\* the wait consumed it and the decision step that followed has returned, all
\* with the failure flag set.
C1_Witness ==
    /\ failed
    /\ ctl_pc = "loop"
    /\ new_changes = 0
    /\ now > StartTime
    /\ last_drone_update = now
    /\ state = S_CONNECTED
    /\ speed >= GROUNDED_SPEED

\* C2: a decision step with failure clear and telemetry older than
\* DRONE_TIMEOUT issues halt and returns (takeoff and send_joy are issued only
\* after the staleness tests); with telemetry at most DRONE_TIMEOUT old, and
\* tracking fresh, it issues no halt.
C2_TelemetryStalenessHalts ==
    [][ (DecisionStep /\ ~failed) =>
          /\ (now - last_drone_update > DRONE_TIMEOUT) =>
                /\ IssuedNext("still")
                /\ ctl_pc' = "loop"
                /\ ~IssuedNext("takeoff")
                /\ ~IssuedNext("send_joy")
          /\ (/\ now - last_drone_update <= DRONE_TIMEOUT
              /\ now - last_vicon_update <= VICON_TIMEOUT) => ~IssuedNext("still") ]_vars

\* C2 witness: a decision step has just halted on stale telemetry while the
\* drone is connected, airborne and tracking is fresh.
C2_Witness ==
    /\ ctl_pc = "loop"
    /\ vicon_pc # "reply"
    /\ out = <<Cmd("still")>>
    /\ ~failed
    /\ now - last_drone_update > DRONE_TIMEOUT
    /\ now - last_vicon_update <= VICON_TIMEOUT
    /\ state = S_CONNECTED
    /\ speed >= GROUNDED_SPEED

\* C3: a decision step with failure clear, telemetry fresh and tracking older
\* than VICON_TIMEOUT issues halt and returns; with tracking at most
\* VICON_TIMEOUT old it issues no halt; and last_vicon_update changes only in
\* a tracking request that decodes.
C3_TrackingStalenessHalts ==
    [][ /\ (DecisionStep /\ ~failed /\ now - last_drone_update <= DRONE_TIMEOUT) =>
              /\ (now - last_vicon_update > VICON_TIMEOUT) =>
                    /\ IssuedNext("still")
                    /\ ctl_pc' = "loop"
                    /\ ~IssuedNext("takeoff")
                    /\ ~IssuedNext("send_joy")
              /\ (now - last_vicon_update <= VICON_TIMEOUT) => ~IssuedNext("still")
        /\ (last_vicon_update' # last_vicon_update) =>
              /\ TrackingStep
              /\ vicon_msg'.json
              /\ TrackingKeys \subseteq vicon_msg'.keys
              /\ vicon_msg'.objs
              /\ last_vicon_update' = now ]_vars

\* C3 witness: a decision step has just halted on stale tracking while the
\* drone is connected and telemetry is fresh.
C3_Witness ==
    /\ ctl_pc = "loop"
    /\ vicon_pc # "reply"
    /\ out = <<Cmd("still")>>
    /\ ~failed
    /\ now - last_drone_update <= DRONE_TIMEOUT
    /\ now - last_vicon_update > VICON_TIMEOUT
    /\ state = S_CONNECTED

\* C4: any two takeoff() commands are more than LIFT_DELAY apart.
C4_TakeoffDebounced ==
    [][ (ctl_pc = "act" /\ IssuedNext("takeoff") /\ last_takeoff # 0) =>
            now - last_takeoff > LIFT_DELAY ]_vars

\* C5: every send_joy command handed to the drone has four integer arguments
\* in [-MAX_SPEED, MAX_SPEED].
C5_JoyInRange ==
    \A i \in DOMAIN out :
        out[i].cmd = "send_joy" =>
            /\ Len(out[i].args) = 4
            /\ \A j \in 1..4 : out[i].args[j] \in (-MAX_SPEED)..MAX_SPEED

\* C5 witness: a computed command was dispatched whose PID outputs lay beyond
\* the range on both sides and were clipped to -MAX_SPEED and MAX_SPEED.
C5_Witness ==
    /\ drone_tracking = "True"
    /\ ctl_pc = "loop"
    /\ joy_update = now
    /\ \E i \in DOMAIN out :
          /\ out[i].cmd = "send_joy"
          /\ out[i].args[1] = -MAX_SPEED
          /\ out[i].args[3] = -MAX_SPEED
          /\ out[i].args[4] = MAX_SPEED

\* C6: every request the tracking listener has received is answered: the
\* listener holds a request only on its way to sending the acknowledgement.
C6_EveryRequestAcknowledged ==
    vicon_msg # NoRequest => vicon_pc = "reply"

\* C7: a tracking request that fails to decode (not JSON, a missing field, a
\* wrong type) makes the listener issue still() and leaves the poses, the
\* failure flag, last_vicon_update and the semaphore unchanged.
C7_DecodeFailureHalts ==
    [][ (/\ TrackingStep
         /\ \/ ~vicon_msg'.json
            \/ ~(TrackingKeys \subseteq vicon_msg'.keys)
            \/ ~vicon_msg'.objs) =>
            /\ out' = <<Cmd("still")>>
            /\ UNCHANGED <<poses, failed, last_vicon_update, new_changes>> ]_vars

\* C8: once the stop signal is set the controller thread issues emergency()
\* and die(): it has done so, or it is still running towards the test of the
\* stop signal.
C8_ShutdownAfterStop ==
    stop_event => ctl_pc \in {"loop", "wait", "decide", "act", "done"}

\* C9: the wait leaves no backlog: when it ends on a wake signal, no signal
\* remains pending, so the signals of one burst cause one decision step.
C9_WakeCoalesced ==
    [][ (ctl_pc = "wait" /\ ctl_pc' = "decide") => new_changes' = 0 ]_vars

\* C10: as long as the stop signal is not set the decision loop is running,
\* so that a next decision step is always still to come.
C10_LoopKeepsDeciding ==
    ~stop_event => ctl_pc \in {"init", "loop", "wait", "decide", "act"}

\* a step of the telemetry callback: it stamps the telemetry feed and raises
\* the wake signal, and the tracking listener does not move
TelemetryStep ==
    /\ new_changes' = new_changes + 1
    /\ last_drone_update' = now
    /\ vicon = vicon'

\* C11: the connection state is Disconnected until the controller starts and
\* changes only in the telemetry callback's handling of a connection state
\* event: the value 'y' sets Connected, any other value sets Disconnected,
\* whatever the state was; every other event and every other step (a
\* listener's request, a step of the decision loop, connect() included)
\* leaves it as it is.
C11_ConnectionStateByEvent ==
    [][ /\ ctl_pc = "init" => state = S_DISCONNECTED
        /\ IF TelemetryStep
             THEN state' = IF event'.t = CB_STATE
                             THEN IF event'.data = "y" THEN S_CONNECTED
                                                       ELSE S_DISCONNECTED
                             ELSE state
             ELSE state' = state ]_vars

\* a connection state event with a value other than 'y' was the last event
\* handled and the state is Disconnected, while the decision loop, which has
\* seen Connected, is about to act
C11_Witness ==
    /\ event = Event(CB_STATE, "n")
    /\ state = S_DISCONNECTED
    /\ speed = GROUNDED_SPEED
    /\ ctl_pc = "act"

\* C12: once the controller has started, the target listener is running
\* (it has left the state it was constructed in), so that a target request
\* can be received, stored and acknowledged.
C12_TargetListenerRuns == ctl_pc # "init" => unity_pc # "new"

\* C13: a decision step that finds the drone airborne (failure clear, both
\* feeds fresh, Connected, speed at or above the grounded threshold)
\* completes normally: the controller is back at the top of its loop, the
\* step never faults.
C13_AirborneStepCompletes ==
    [][ (ctl_pc = "act" /\ ctl_pc' # "act" /\ speed >= GROUNDED_SPEED) =>
            ctl_pc' = "loop" ]_vars

\* the fields the threads share
shared == <<telemetry, poses, last_drone_update, last_vicon_update, failed>>

\* C14: every write of a shared field is made by a thread that holds the
\* mutex: a step that changes a shared field is a step of the thread holding
\* the mutex, taken inside its critical section.
C14_SharedWritesHoldMutex ==
    [][ shared' # shared =>
            \E i \in CallbackThreads :
                mutex = {i} /\ cb_pc[i] = "locked" /\ cb_pc'[i] # "locked" ]_vars

\* C17: neither feed's timestamp ever decreases, whatever the interleaving
\* of the threads that write them.
C17_TimestampsMonotonic ==
    [][ /\ last_drone_update' >= last_drone_update
        /\ last_vicon_update' >= last_vicon_update ]_vars

\* C15: a control command computed while the yaw error between the drone's
\* and the target's rotation is at or above ROTATION_HALT has zero lateral,
\* longitudinal and vertical components; only its yaw component may be
\* non-zero. (The state is the one right after the airborne tracking step:
\* the command is in out and the poses are the ones the step read.)
C15_YawGate ==
    ( /\ drone_tracking = "True"
      /\ ctl_pc = "loop"
      /\ ~AngleBelowHalt(drone_rotation, target_rotation) ) =>
        \A i \in DOMAIN out :
            out[i].cmd = "send_joy" =>
                out[i].args[1] = 0 /\ out[i].args[2] = 0 /\ out[i].args[4] = 0

\* the drone is reported facing away from the target rotation (yaw error pi)
\* and the tracking step has just sent a pure yaw command at full speed
C15_Witness ==
    /\ drone_tracking = "True"
    /\ ctl_pc = "loop"
    /\ drone_rotation = <<0, 0, 0, 1>>
    /\ target_rotation = <<0, 1, 0, 0>>
    /\ out = <<Joy(0, 0, MAX_SPEED, 0)>>

\* the airborne tracking branch of a decision step
ComputeStep ==
    /\ ctl_pc = "act"
    /\ ctl_pc' # "act"
    /\ speed >= GROUNDED_SPEED
    /\ drone_tracking = "True"

C18_StopServesOneMore ==
    [][ /\ (~vicon_stop /\ vicon_stop') => vicon_pc' = vicon_pc
        /\ (vicon_stop /\ vicon_pc = "recv" /\ vicon_pc' # "recv") =>
               vicon_pc' = "reply"
        /\ (vicon_stop /\ vicon_pc = "reply" /\ vicon_pc' # "reply") =>
               vicon_pc' = "closed"
        /\ vicon_pc = "closed" => vicon_pc' = "closed" ]_vars

\* C19: at the step that issues takeoff() or send_joy the failure flag is
\* clear and the connection state is Connected; takeoff() is issued only
\* with the reported speed below the grounded threshold and send_joy only
\* with it at or above the threshold.
C19_CommandsOnlyWhenConnected ==
    [][ /\ (ctl_pc = "act" /\ IssuedNext("takeoff")) =>
               ~failed /\ state = S_CONNECTED /\ speed < GROUNDED_SPEED
        /\ (ctl_pc = "act" /\ IssuedNext("send_joy")) =>
               ~failed /\ state = S_CONNECTED /\ speed >= GROUNDED_SPEED ]_vars

\* C20: once the controller has issued emergency() and die(), no thread
\* hands the drone a further command: every later step leaves out empty.
C20_DieIsFinal == [][ ctl_pc = "done" => out' = <<>> ]_vars

====
